---- MODULE Spec2Model ----
(***************************************************************************)
(* Model of the invenio-moodle import pipeline.                            *)
(*                                                                         *)
(* The import run is utils.insert_moodle_into_db: validate -> temporary    *)
(* directory -> cache_files -> prepare_tasks -> insert_files_into_db ->    *)
(* get_links / link records -> update metadata -> update drafts -> publish *)
(* inside one unit of work.  The repository (record service, draft-files   *)
(* service, persistent-identifier store, unit of work) is the environment  *)
(* the run talks to; the batch loops of tasks.py, cli.py and api.py are a  *)
(* second state machine (SpecBatch).                                       *)
(***************************************************************************)
EXTENDS Integers, Sequences, FiniteSets, TLC

VARIABLES
    repo,       \* the repository: sequence of records, index = lomid pid
    pre,        \* snapshot of repo taken when the current run was called
    pc,         \* position of the current run inside insert_moodle_into_db
    payload,    \* moodle_data of the current run: sequence of file elements
    fileCache,  \* file_cache: set of [url, hash_md5, name]
    taskLogs,   \* task_logs: sequence of task logs in insertion order
    links,      \* the links returned by get_links in this run
    log,        \* calls made to the outside by the current run, in order
    tempDir,    \* "none" | "exists" | "removed"
    err,        \* exception that ended the current run, "" if none
    runs,       \* number of runs called so far
    last,       \* payload and outcome of the previous run
    bLoop,      \* batch loop running: "none" | "tasks" | "cli" | "api"
    bOutcomes,  \* outcome of the import function for each record handled
    bLen,       \* number of records of the batch
    bCalls,     \* indices of the batch records the import function was called on
    bStatus,    \* "idle" | "running" | "done" | "aborted"
    doc,        \* the file elements of a document handed to MoodleSchema().load
    verdict,    \* what load did with doc: not called, returned or raised
    convIn,     \* the input handed to the converters of convert.py
    convOut,    \* what the converters did with convIn
    cli         \* cli.import_by_endpoint: position, fetch result, calls made

runVars == <<repo, pre, pc, payload, fileCache, taskLogs, links, log, tempDir, err, runs, last>>
batchVars == <<bLoop, bLen, bOutcomes, bCalls, bStatus>>
schemaVars == <<doc, verdict>>
convertVars == <<convIn, convOut>>
vars == <<repo, pre, pc, payload, fileCache, taskLogs, links, log, tempDir, err, runs, last,
          bLoop, bLen, bOutcomes, bCalls, bStatus, doc, verdict, convIn, convOut, cli>>

(***************************************************************************)
(* Bounds                                                                  *)
(***************************************************************************)
MaxElems == 2     \* file elements per payload
MaxRuns == 2      \* import runs in a behaviour
MaxBatch == 3     \* records in a batch of the batch loops
MaxDoc == 3       \* file elements of a document handed to the schema
MaxIds == 3       \* OEFOS ids of an element handed to the converters

(***************************************************************************)
(* Moodle data                                                             *)
(***************************************************************************)
\* course entries (CourseSchema): courseid, sourceid, coursename
CourseB == [courseid |-> "B", sourceid |-> "-1", coursename |-> "Basics"]
CourseC == [courseid |-> "C", sourceid |-> "B", coursename |-> "Continued"]
Course0 == [courseid |-> "0", sourceid |-> "-1", coursename |-> "moodle-only"]

\* file elements (ElementSchema): fileurl, year, semester, title, courses
Elem1 == [fileurl |-> "u1", year |-> "2023", semester |-> "SS", title |-> "t1",
          courses |-> <<CourseB>>]
Elem2 == [fileurl |-> "u2", year |-> "2023", semester |-> "SS", title |-> "",
          courses |-> <<CourseB>>]
Elem3 == [fileurl |-> "u3", year |-> "2023", semester |-> "SS", title |-> "t3",
          courses |-> <<CourseC, Course0>>]

Elems == <<Elem1, Elem2, Elem3>>

\* the payloads a run may be called with: elements in the order of the list,
\* an element possibly repeated
Payloads ==
    LET Picks(n) == {f \in [1..n -> DOMAIN Elems] :
                        \A i \in 1..(n - 1) : f[i] <= f[i + 1]}
    IN  UNION {{[i \in 1..n |-> Elems[f[i]]] : f \in Picks(n)} : n \in 1..MaxElems}

\* what the server holds under each URL: u1 and u2 are the same bytes
Content(url) ==
    CASE url = "u1" -> "h1"
      [] url = "u2" -> "h1"
      [] OTHER -> "h3"

\* filename="..." of the content-disposition header of each URL
Filename(url) ==
    CASE url = "u1" -> "a.pdf"
      [] url = "u2" -> "b.pdf"
      [] OTHER -> "c.pdf"

(***************************************************************************)
(* Keys (dataclasses of utils.py); a key is the tuple of its tag and its   *)
(* fields, so that dataclass equality is tuple equality.                   *)
(***************************************************************************)
NoKey == <<>>

FileKey(url, year, semester, hash_md5) == <<"FileKey", url, year, semester, hash_md5>>
UnitKey(courseid, year, semester) == <<"UnitKey", courseid, year, semester>>
CourseKey(courseid) == <<"CourseKey", courseid>>

IsFileKey(key) == key # NoKey /\ key[1] = "FileKey"
IsUnitKey(key) == key # NoKey /\ key[1] = "UnitKey"
IsCourseKey(key) == key # NoKey /\ key[1] = "CourseKey"

resource_type(key) ==
    CASE IsFileKey(key) -> "file"
      [] IsUnitKey(key) -> "unit"
      [] OTHER -> "course"

\* file_cache[url].hash_md5
CacheHash(cache, url) == (CHOOSE c \in cache : c.url = url).hash_md5
CacheName(cache, url) == (CHOOSE c \in cache : c.url = url).name

FileKeyFromJsonAndCache(fj, cache) ==
    FileKey(fj.fileurl, fj.year, fj.semester, CacheHash(cache, fj.fileurl))
UnitKeyFromJson(fj, cj) == UnitKey(cj.courseid, fj.year, fj.semester)
CourseKeyFromJson(cj) == CourseKey(cj.courseid)

\* to_string_key: the unique string representation of a key
to_string_key(key) ==
    CASE IsFileKey(key) ->
            "FileKey(url=" \o key[2] \o ", year=" \o key[3] \o ", semester=" \o key[4]
                \o ", hash_md5=" \o key[5] \o ")"
      [] IsUnitKey(key) ->
            "UnitKey(courseid=" \o key[2] \o ", year=" \o key[3] \o ", semester=" \o key[4] \o ")"
      [] OTHER -> "CourseKey(courseid=" \o key[2] \o ")"

(***************************************************************************)
(* The key classes of types.py, on the same tuples.  UnitKey declares the  *)
(* field courseid, its methods read self.course_id: the attribute lookup   *)
(* raises AttributeError, written here as the value the call ends with.    *)
(***************************************************************************)
\* Key.get_moodle_pid_value
get_moodle_pid_value(key) ==
    CASE IsFileKey(key) -> key[5]
      [] IsUnitKey(key) -> "AttributeError"
      [] OTHER -> key[2]

\* Key.__str__
KeyStr(key) ==
    CASE IsFileKey(key) ->
            "FileKey(url=" \o key[2] \o ", year=" \o key[3] \o ", semester=" \o key[4]
                \o ", hash_md5=" \o key[5] \o ")"
      [] IsUnitKey(key) -> "AttributeError"
      [] OTHER -> "CourseKey(courseid=" \o key[2] \o ")"

\* BaseRecord.pid
BaseRecordPid(key) == get_moodle_pid_value(key)

\* a FileRecord, UnitRecord or CourseRecord: its key, the links appended to its
\* own metadata with append_link, in call order, and the exception that ended
\* a call on it
TypesRecord(key) == [key |-> key, appended |-> <<>>, err |-> ""]

\* the loop of construct_up_links / construct_down_links: for each given record,
\* append Link(self.pid, own, record.pid) and then Link(record.pid, other,
\* self.pid) to the metadata of self; reading the pid of a unit raises
RECURSIVE ConstructLinks(_, _, _, _, _)
ConstructLinks(self, records, own, other, k) ==
    IF k > Len(records) \/ self.err # "" THEN self
    ELSE LET self_pid == BaseRecordPid(self.key)
             record_pid == BaseRecordPid(records[k])
         IN  IF self_pid = "AttributeError" \/ record_pid = "AttributeError"
             THEN [self EXCEPT !.err = "AttributeError"]
             ELSE ConstructLinks(
                    [self EXCEPT !.appended = @ \o
                        <<[source |-> self_pid, kind |-> own, target |-> record_pid],
                          [source |-> record_pid, kind |-> other, target |-> self_pid]>>],
                    records, own, other, k + 1)

\* FileRecord / UnitRecord / CourseRecord.construct_up_links
construct_up_links(self, records) ==
    IF self.err # "" THEN self
    ELSE IF IsCourseKey(self.key) THEN [self EXCEPT !.err = "RuntimeError"]
    ELSE ConstructLinks(self, records, "ispartof", "haspart", 1)

\* FileRecord / UnitRecord / CourseRecord.construct_down_links
construct_down_links(self, records) ==
    IF self.err # "" THEN self
    ELSE IF IsFileKey(self.key) THEN [self EXCEPT !.err = "RuntimeError"]
    ELSE ConstructLinks(self, records, "haspart", "ispartof", 1)

(***************************************************************************)
(* LOM metadata document (LOMMetadata of invenio-records-lom).  A set_*    *)
(* call overwrites its field, an append_* call adds its entry unless the   *)
(* document already holds it.                                              *)
(***************************************************************************)
EmptyMeta == [ids |-> {}, title |-> "", facts |-> {}, rel |-> {}, preview |-> ""]

append_identifier(m, entry, catalog) == [m EXCEPT !.ids = @ \cup {<<catalog, entry>>}]
set_title(m, title) == [m EXCEPT !.title = title]
append_fact(m, field, value) == [m EXCEPT !.facts = @ \cup {<<field, value>>}]
append_relation(m, value, kind) == [m EXCEPT !.rel = @ \cup {<<kind, value>>}]

\* LOMMetadata.create(resource_type, pids) followed by append_identifier(.., "moodle")
CreateMeta(database_key) == append_identifier(EmptyMeta, database_key, "moodle")

(***************************************************************************)
(* The repository.  A record is created as a draft; publish copies the     *)
(* draft to the published record, drops the draft and registers the        *)
(* record's moodle identifier in the persistent-identifier store; edit     *)
(* opens a draft of a published record.                                    *)
(***************************************************************************)
NewDraft(database_key, rtype) ==
    [moodle |-> database_key, rtype |-> rtype,
     draft |-> TRUE, pub |-> FALSE,
     dmeta |-> CreateMeta(database_key), pmeta |-> EmptyMeta,
     dfiles |-> 0, pfiles |-> 0]

\* PersistentIdentifier.get(pid_type="moodle", pid_value=..) followed by
\* get_by_object(pid_type="lomid", ..): the lomids registered under the value
PidGet(r, database_key) == {i \in DOMAIN r : r[i].pub /\ r[i].moodle = database_key}

\* service.edit: ensure a draft exists
ServiceEdit(r, pid) ==
    IF r[pid].draft THEN r
    ELSE [r EXCEPT ![pid].draft = TRUE, ![pid].dmeta = r[pid].pmeta,
                   ![pid].dfiles = r[pid].pfiles]

\* service.update_draft
ServiceUpdateDraft(r, pid, data) == [r EXCEPT ![pid].dmeta = data]

\* service.publish
ServicePublish(r, pid) ==
    [r EXCEPT ![pid].pub = TRUE, ![pid].pmeta = r[pid].dmeta,
              ![pid].pfiles = r[pid].dfiles, ![pid].draft = FALSE]

\* list_draft_files(id_).entries, or list_files(id_).entries on NoResultFound
FormerFilesOfDraft(r, pid) == r[pid].dfiles
FormerFiles(r, pid) == IF r[pid].draft THEN r[pid].dfiles ELSE r[pid].pfiles

\* init_files + set_file_content + commit_file
AttachFile(r, pid) == [r EXCEPT ![pid].dfiles = @ + 1]

\* one call to the outside, as recorded in log
Ev(op, key, id) == [op |-> op, key |-> key, id |-> id]

(***************************************************************************)
(* Task logs (TaskLog, the run-scoped table task_logs: dict[Key, TaskLog]) *)
(***************************************************************************)
\* Python's None for moodle_file_json / moodle_course_json is the empty tuple
NoJson == <<>>

TaskLog(key, pid, isNew, previous_json, json) ==
    [key |-> key, pid |-> pid, isNew |-> isNew, prev |-> previous_json, json |-> json,
     fj |-> NoJson, cj |-> NoJson]

\* key in task_logs
InTasksNever(key, tl) == FALSE
InTasks(key, tl) == \E i \in DOMAIN tl : tl[i].key = key

\* task_logs[key]
TaskOf(tl, key) == tl[CHOOSE i \in DOMAIN tl : tl[i].key = key]

\* task_logs[key] = item: a dict keeps the position of a key it already holds
PutTask(tl, item) ==
    IF \E i \in DOMAIN tl : tl[i].key = item.key
    THEN [i \in DOMAIN tl |-> IF tl[i].key = item.key THEN item ELSE tl[i]]
    ELSE Append(tl, item)

(***************************************************************************)
(* fetch_else_create                                                       *)
(***************************************************************************)
PidGetNever(r, database_key) == {}
PidLookup(r, database_key) == PidGet(r, database_key)

fetch_else_create(r, key) ==
    LET database_key == to_string_key(key)
        found == PidLookup(r, database_key)
    IN  IF found = {}
        THEN \* PIDDoesNotExistError: create draft with empty metadata
             LET pid == Len(r) + 1
                 rec == NewDraft(database_key, resource_type(key))
             IN  [repo |-> Append(r, rec),
                  log |-> <<Ev("get", key, 0), Ev("create", key, pid)>>,
                  item |-> TaskLog(key, pid, TRUE, EmptyMeta, rec.dmeta)]
        ELSE LET pid == CHOOSE i \in found : TRUE
             IN  [repo |-> r,
                  log |-> <<Ev("get", key, 0), Ev("read", key, pid)>>,
                  item |-> TaskLog(key, pid, FALSE, r[pid].pmeta, r[pid].pmeta)]

(***************************************************************************)
(* prepare_tasks.  s is [repo, tasks, log]                                 *)
(***************************************************************************)
\* moodle_course_json["courseid"] == "0": a moodle-only course
is_moodle_only_course_never(cj) == FALSE
is_moodle_only_course(cj) == cj.courseid = "0"

\* item = fetch_else_create(key); item.moodle_.._json = ..; task_logs[key] = item
FetchInto(s, key, fj, cj) ==
    LET f == fetch_else_create(s.repo, key)
    IN  [repo |-> f.repo, log |-> s.log \o f.log,
         tasks |-> PutTask(s.tasks, [f.item EXCEPT !.fj = fj, !.cj = cj])]

RECURSIVE PrepCourses(_, _, _)
PrepCourses(s, fj, j) ==
    IF j > Len(fj.courses) THEN s
    ELSE LET cj == fj.courses[j]
         IN  IF is_moodle_only_course(cj)
             THEN \* moodle-only course: don't prepare
                  PrepCourses(s, fj, j + 1)
             ELSE LET unit_key == UnitKeyFromJson(fj, cj)
                      s1 == IF ~InTasks(unit_key, s.tasks)
                            THEN FetchInto(s, unit_key, <<fj>>, <<cj>>) ELSE s
                      course_key == CourseKeyFromJson(cj)
                      s2 == IF ~InTasks(course_key, s1.tasks)
                            THEN FetchInto(s1, course_key, <<fj>>, <<cj>>) ELSE s1
                  IN  PrepCourses(s2, fj, j + 1)

\* the loop over the file elements i..n of moodle_data
RECURSIVE PrepFiles(_, _, _, _, _)
PrepFiles(s, data, cache, i, n) ==
    IF i > n THEN s
    ELSE LET fj == data[i]
             file_key == FileKeyFromJsonAndCache(fj, cache)
             s1 == FetchInto(s, file_key, <<fj>>, NoJson)
         IN  PrepFiles(PrepCourses(s1, fj, 1), data, cache, i + 1, n)

prepare_tasks(r, data, cache, n) ==
    PrepFiles([repo |-> r, tasks |-> <<>>, log |-> <<>>], data, cache, 1, n)

(***************************************************************************)
(* insert_files_into_db.  s is [repo, tasks, log, err]                     *)
(***************************************************************************)
\* len(former_files) == 0
NoFileAttachedOrOne(former_files) == former_files <= 1
NoFileAttached(former_files) == former_files = 0

\* len(former_files) == 1
OneFileAttachedNever(former_files) == FALSE
OneFileAttached(former_files) == former_files = 1

RECURSIVE InsertFiles(_, _, _)
InsertFiles(s, cache, i) ==
    IF i > Len(s.tasks) THEN s
    ELSE LET task_log == s.tasks[i]
             pid == task_log.pid
             former_files == FormerFiles(s.repo, pid)
         IN  IF ~IsFileKey(task_log.key) THEN InsertFiles(s, cache, i + 1)
             ELSE IF NoFileAttached(former_files)
             THEN \* no file attached yet ~> ensure a draft exists, upload the file
                  LET filename == CacheName(cache, task_log.key[2])
                      s1 == [s EXCEPT
                               !.repo = AttachFile(ServiceEdit(s.repo, pid), pid),
                               !.tasks[i].json.preview = filename,
                               !.log = @ \o <<Ev("edit", task_log.key, pid),
                                              Ev("attach", task_log.key, pid)>>]
                  IN  InsertFiles(s1, cache, i + 1)
             ELSE IF OneFileAttached(former_files)
             THEN \* a file is already attached
                  InsertFiles(s, cache, i + 1)
             ELSE [s EXCEPT !.err = "ValueError"]

insert_files_into_db(r, tasks, cache) ==
    InsertFiles([repo |-> r, tasks |-> tasks, log |-> <<>>, err |-> ""], cache, 1)

(***************************************************************************)
(* get_links.  s is [tasks, links, log, err]; a link is [key, kind, value] *)
(***************************************************************************)
Link(key, kind, value) == [key |-> key, kind |-> kind, value |-> value]

\* the links of a file: all its units
FileLinksUpOnly(tl, key, task_log, j) ==
    {Link(key, "ispartof", TaskOf(tl, UnitKeyFromJson(task_log.fj[1], task_log.fj[1].courses[k])).pid) :
        k \in {n \in DOMAIN task_log.fj[1].courses :
                  ~is_moodle_only_course(task_log.fj[1].courses[n])}}
FileLinksOfAllCourses(tl, key, task_log, j) ==
    {Link(UnitKeyFromJson(task_log.fj[1], task_log.fj[1].courses[k]), "haspart", task_log.pid) :
        k \in DOMAIN task_log.fj[1].courses}
RECURSIVE FileLinks(_, _, _, _)
FileLinks(tl, key, task_log, j) ==
    LET fj == task_log.fj[1] IN
    IF j > Len(fj.courses) THEN {}
    ELSE LET cj == fj.courses[j]
             unit_key == UnitKeyFromJson(fj, cj)
         IN  IF is_moodle_only_course(cj) THEN FileLinks(tl, key, task_log, j + 1)
             ELSE {Link(key, "ispartof", TaskOf(tl, unit_key).pid),
                   Link(unit_key, "haspart", task_log.pid)}
                  \cup FileLinks(tl, key, task_log, j + 1)

\* the links of a unit: its course
UnitLinksUpOnly(tl, key, task_log) ==
    {Link(key, "ispartof", TaskOf(tl, CourseKey(key[2])).pid)}
UnitLinksReversed(tl, key, task_log) ==
    {Link(CourseKey(key[2]), "ispartof", task_log.pid),
     Link(key, "haspart", TaskOf(tl, CourseKey(key[2])).pid)}
UnitLinks(tl, key, task_log) ==
    LET course_key == CourseKey(key[2])
    IN  {Link(key, "ispartof", TaskOf(tl, course_key).pid),
         Link(course_key, "haspart", task_log.pid)}

\* sourceid == "-1": the course has no associated preceding course
is_course_the_root(sourceid) == sourceid = "-1"

\* PersistentIdentifier.get(pid_type="moodle", pid_value=source_course_key.to_string_key());
\* the empty set stands for PIDDoesNotExistError
SourceCoursePidOfDrafts(r, source_course_key) ==
    {i \in DOMAIN r : r[i].moodle = to_string_key(source_course_key)}
SourceCoursePid(r, source_course_key) == PidGet(r, to_string_key(source_course_key))

RECURSIVE GetLinks(_, _, _)
GetLinks(s, r, i) ==
    IF i > Len(s.tasks) THEN s
    ELSE LET task_log == s.tasks[i]
             key == task_log.key
         IN  IF IsFileKey(key)
             THEN GetLinks([s EXCEPT !.links = @ \cup FileLinks(s.tasks, key, task_log, 1)],
                           r, i + 1)
             ELSE IF IsUnitKey(key)
             THEN GetLinks([s EXCEPT !.links = @ \cup UnitLinks(s.tasks, key, task_log)],
                           r, i + 1)
             ELSE \* link course with previous course, if it exists
                  LET sourceid == task_log.cj[1].sourceid
                      source_course_key == CourseKey(sourceid)
                      moodle_pid == SourceCoursePid(r, source_course_key)
                      s1 == [s EXCEPT !.log = @ \o <<Ev("get_source", source_course_key, 0)>>]
                  IN  IF is_course_the_root(sourceid) THEN GetLinks(s, r, i + 1)
                      ELSE IF moodle_pid = {}
                      THEN \* source course has no entry in database
                           GetLinks(s1, r, i + 1)
                      ELSE IF ~InTasks(source_course_key, s.tasks)
                      THEN \* read = partial(service, ..); read(id_=pid): the service
                           \* object is not callable
                           [s1 EXCEPT !.err = "TypeError"]
                      ELSE GetLinks(
                             [s1 EXCEPT !.links = @ \cup
                                 {Link(source_course_key, "iscontinuedby", task_log.pid),
                                  Link(key, "continues",
                                       TaskOf(s.tasks, source_course_key).pid)}],
                             r, i + 1)

get_links(tasks, r) ==
    GetLinks([tasks |-> tasks, links |-> {}, log |-> <<>>, err |-> ""], r, 1)

\* link records: append every link as a relation to the json of its key's task log
ApplyLinks(tasks, inferred) ==
    [i \in DOMAIN tasks |->
        [tasks[i] EXCEPT !.json.rel =
            @ \cup {<<l.kind, l.value>> : l \in {m \in inferred : m.key = tasks[i].key}}]]

(***************************************************************************)
(* update_file_metadata, update_unit_metadata, update_course_metadata      *)
(***************************************************************************)
update_file_metadata(json, fj, cache) ==
    LET titled == IF fj.title # "" THEN set_title(json, fj.title)
                  ELSE set_title(json, CacheName(cache, fj.fileurl))
    IN  append_fact(titled, "url", fj.fileurl)

update_unit_metadata(json, fj, cj) ==
    LET title == cj.coursename \o " (" \o fj.semester \o " " \o fj.year \o ")"
        version == fj.semester \o " " \o fj.year
    IN  append_fact(append_fact(set_title(json, title), "keyword", fj.semester),
                    "version", version)

update_course_metadata(json, fj, cj) ==
    set_title(append_identifier(json, cj.courseid, "moodle-id"), cj.coursename)

\* update lom-jsons with info from moodle
UpdateJsons(tasks, cache) ==
    [i \in DOMAIN tasks |->
        LET t == tasks[i] IN
        IF t.fj = NoJson THEN t
        ELSE IF IsFileKey(t.key)
        THEN [t EXCEPT !.json = update_file_metadata(@, t.fj[1], cache)]
        ELSE IF IsUnitKey(t.key)
        THEN [t EXCEPT !.json = update_unit_metadata(@, t.fj[1], t.cj[1])]
        ELSE [t EXCEPT !.json = update_course_metadata(@, t.fj[1], t.cj[1])]]

(***************************************************************************)
(* MoodleSchema.validate_urls_unique                                       *)
(***************************************************************************)
\* file_["fileurl"] if "fileurl" in file_ else file_["source"]
canonical_url(file_) ==
    IF "fileurl" \in DOMAIN file_ THEN file_.fileurl ELSE file_.source

\* duplicated_urls: the urls the Counter over the elements counts more than once
DuplicatedUrlsMoreThanTwice(data) ==
    {u \in {canonical_url(data[i]) : i \in DOMAIN data} :
        Cardinality({i \in DOMAIN data : canonical_url(data[i]) = u}) > 2}
DuplicatedUrls(data) ==
    {u \in {canonical_url(data[i]) : i \in DOMAIN data} :
        Cardinality({i \in DOMAIN data : canonical_url(data[i]) = u}) > 1}

\* validate_course_jsons_unique_per_courseid: jsons_by_courseid[course_id] is a
\* list of course jsons, course_id is never in it, so every occurrence of a
\* course entry is appended; '0' is allowed to be ambiguous
AmbiguousCourseIds(data) ==
    LET entries == UNION {{<<i, j>> : j \in DOMAIN data[i].courses} : i \in DOMAIN data}
        course_id(o) == data[o[1]].courses[o[2]].courseid
        jsons_by_courseid(c) == {o \in entries : course_id(o) = c}
    IN  {c \in {course_id(o) : o \in entries} : Cardinality(jsons_by_courseid(c)) > 1}
            \ {"0"}

\* the methods of MoodleSchema decorated with @validates_schema
SchemaHooks == {"validate_urls_unique"}

\* MoodleSchema().load(moodle_data): the outcome of the registered hooks
NoVerdict == [called |-> FALSE, raised |-> FALSE, urls |-> {}, courseids |-> {}]
MoodleSchemaLoad(data) ==
    LET urls == IF "validate_urls_unique" \in SchemaHooks
                THEN DuplicatedUrls(data) ELSE {}
        courseids == IF "validate_course_jsons_unique_per_courseid" \in SchemaHooks
                     THEN AmbiguousCourseIds(data) ELSE {}
    IN  [called |-> TRUE, raised |-> urls # {} \/ courseids # {},
         urls |-> urls, courseids |-> courseids]

\* MoodleSchema().load(moodle_data) does not raise
ValidAlways(data) == TRUE
Valid(data) == ~MoodleSchemaLoad(data).raised

(***************************************************************************)
(* cache_files: the files of provided_filepaths_by_url are read from disk, *)
(* then the requests are made in the order of urls; failAt is the position *)
(* of the first URL whose response has an error status (0: none).          *)
(***************************************************************************)
CacheInfo(url) == [url |-> url, hash_md5 |-> Content(url), name |-> Filename(url)]

\* the values filepaths_by_url takes: its key set
ProvidedSets == {{}, {"u1"}}

\* one read per provided file
ProvidedLog(provided) ==
    IF provided = {} THEN <<>>
    ELSE LET url == CHOOSE u \in provided : TRUE
         IN  <<Ev("read_provided", <<"url", url>>, 0)>>

\* one session.get per entry of urls that is not provided, up to the failing one
DownloadLogOfAll(provided, urls, failAt) ==
    [i \in 1..(IF failAt = 0 THEN Len(urls) ELSE failAt) |->
        IF i = failAt THEN Ev("download_failed", <<"url", urls[i]>>, 0)
        ELSE Ev("download", <<"url", urls[i]>>, 0)]
DownloadLog(provided, urls, failAt) ==
    LET requested(e) == e.key[2] \notin provided
    IN  SelectSeq([i \in 1..(IF failAt = 0 THEN Len(urls) ELSE failAt) |->
                      IF i = failAt THEN Ev("download_failed", <<"url", urls[i]>>, 0)
                      ELSE Ev("download", <<"url", urls[i]>>, 0)],
                  requested)

cache_files_swallow(provided, urls, failAt) ==
    [cache |-> {CacheInfo(url) : url \in provided}
                  \cup {CacheInfo(urls[i]) : i \in DOMAIN urls},
     log |-> ProvidedLog(provided) \o DownloadLog(provided, urls, failAt),
     err |-> ""]
cache_files(provided, urls, failAt) ==
    [cache |-> {CacheInfo(url) : url \in provided}
                  \cup {CacheInfo(urls[i]) :
                            i \in 1..(IF failAt = 0 THEN Len(urls) ELSE failAt - 1)},
     log |-> ProvidedLog(provided) \o DownloadLog(provided, urls, failAt),
     err |-> IF failAt = 0 THEN "" ELSE "HTTPError"]

(***************************************************************************)
(* Scoped resources                                                        *)
(***************************************************************************)
\* leaving `with TemporaryDirectory() as temp_dir`, by return or by exception
CleanupAtEndOfBlock(raised) == IF raised THEN "exists" ELSE "removed"
Cleanup(raised) == "removed"

\* leaving `with UnitOfWork() as uow` by exception: the publishes are rolled back
RollbackNothing(before, after) == after
Rollback(before, after) == before

\* publish the drafts pids[k..upto]
RECURSIVE PublishAll(_, _, _, _)
PublishAll(r, pids, k, upto) ==
    IF k > upto THEN r ELSE PublishAll(ServicePublish(r, pids[k]), pids, k + 1, upto)

\* the subsequence of the task logs for which read_draft finds a draft
RECURSIVE WithDraft(_, _, _)
WithDraftOrNot(r, tl, i) == SubSeq(tl, i, Len(tl))
WithDraft(r, tl, i) ==
    IF i > Len(tl) THEN <<>>
    ELSE (IF r[tl[i].pid].draft THEN <<tl[i]>> ELSE <<>>) \o WithDraft(r, tl, i + 1)

\* task_log.previous_json != task_log.json; previous_json is None for a record
\* created in this run
JsonGotUpdatedAlways(t) == TRUE
JsonGotUpdated(t) == t.isNew \/ t.prev # t.json

\* update drafts: edit + update_draft for every task log whose json changed
RECURSIVE UpdateDraftsFrom(_, _, _)
UpdateDraftsFrom(s, tl, i) ==
    IF i > Len(tl) THEN s
    ELSE LET t == tl[i] IN
         IF JsonGotUpdated(t)
         THEN UpdateDraftsFrom(
                [repo |-> ServiceUpdateDraft(ServiceEdit(s.repo, t.pid), t.pid, t.json),
                 log |-> s.log \o <<Ev("edit", t.key, t.pid), Ev("update_draft", t.key, t.pid)>>],
                tl, i + 1)
         ELSE UpdateDraftsFrom(s, tl, i + 1)

(***************************************************************************)
(* The repository a behaviour starts from: empty, or holding a file record *)
(* with two files attached (the corruption insert_files_into_db checks)    *)
(***************************************************************************)
CorruptRecord ==
    LET database_key == to_string_key(FileKey("u1", "2023", "SS", "h1"))
    IN  [NewDraft(database_key, "file") EXCEPT
            !.draft = FALSE, !.pub = TRUE, !.pmeta = CreateMeta(database_key),
            !.dmeta = EmptyMeta, !.pfiles = 2]

InitRepos == {<<>>, <<CorruptRecord>>}

NoLast == [payload |-> <<>>, ok |-> FALSE]

InitRun ==
    /\ pre = repo
    /\ pc = "idle"
    /\ payload = <<>>
    /\ fileCache = {}
    /\ taskLogs = <<>>
    /\ links = {}
    /\ log = <<>>
    /\ tempDir = "none"
    /\ err = ""
    /\ runs = 0
    /\ last = NoLast

InitBatchIdle ==
    /\ bLoop = "none"
    /\ bLen = 0
    /\ bOutcomes = <<>>
    /\ bCalls = <<>>
    /\ bStatus = "idle"

(***************************************************************************)
(* convert.py: the visitors. A JSON object is a sequence of                *)
(* <<attribute, value>> pairs in the order of the document; an OEFOS id is *)
(* a sequence of digits.                                                   *)
(***************************************************************************)
EmptyLOM == [oefos |-> <<>>, learningresourcetype |-> <<>>, err |-> ""]

\* the visit_<attribute> methods of each visitor class
Handlers(visitor) ==
    CASE visitor = "MoodleCourseToLOMCourse" ->
            {"courseid", "identifier", "coursename", "structure", "context"}
      [] visitor = "MoodleUnitToLOMUnit" ->
            {"year", "semester", "coursename", "courselanguage", "description",
             "lecturer", "organisation", "objective"}
      [] visitor = "MoodleFileToLOMFile" ->
            {"language", "title", "abstract", "tags", "persons", "timereleased",
             "mimetype", "filesize", "resourcetype", "license", "classification"}

\* str.ljust(width, fillchar)
ljust(id_, width, fillchar) == id_ \o [i \in 1..(width - Len(id_)) |-> fillchar]

\* the sort key of visit_classification; chr(255) is above every digit
SortKeyUnpadded(id_) == id_
SortKey(id_) == ljust(id_, 6, 255)

\* a < b for two strings
LexLess(a, b) ==
    \/ Len(a) < Len(b) /\ SubSeq(b, 1, Len(a)) = a
    \/ \E i \in 1..Len(a) :
          /\ i <= Len(b)
          /\ a[i] < b[i]
          /\ SubSeq(a, 1, i - 1) = SubSeq(b, 1, i - 1)

\* list.sort(key=...): ascending by key, equal keys keep their order
RECURSIVE SortByKey(_)
SortByKey(ids) ==
    IF ids = <<>> THEN <<>>
    ELSE LET front == SortByKey(SubSeq(ids, 1, Len(ids) - 1))
             id_ == ids[Len(ids)]
             p == Cardinality({i \in DOMAIN front :
                                  ~LexLess(SortKey(id_), SortKey(front[i]))})
         IN  SubSeq(front, 1, p) \o <<id_>> \o SubSeq(front, p + 1, Len(front))

\* the identifiers of all values of all classification blocks, in order
RECURSIVE OefosIds(_)
OefosIds(classifications) ==
    IF classifications = <<>> THEN <<>>
    ELSE Head(classifications).values \o OefosIds(Tail(classifications))

\* append_oefos_id(id_) and append_oefos_id(id_, "en") for each id in turn
RECURSIVE AppendOefosIds(_, _)
AppendOefosIds(record, ids) ==
    IF ids = <<>> THEN record
    ELSE AppendOefosIds(
            [record EXCEPT !.oefos = @ \o <<<<Head(ids), "">>, <<Head(ids), "en">>>>],
            Tail(ids))

visit_classification(classifications, record) ==
    AppendOefosIds(record, SortByKey(OefosIds(classifications)))

\* the lookup table of visit_resourcetype; "" stands for None
learningresourcetype_by_resourcetype ==
    [r \in {"No selection", "Presentationslide", "Exercise"} |->
        CASE r = "No selection" -> ""
          [] r = "Presentationslide" -> "slide"
          [] r = "Exercise" -> "assessment"]

visit_resourcetype(value, record) ==
    IF value \notin DOMAIN learningresourcetype_by_resourcetype
    THEN [record EXCEPT !.err = "KeyError"]
    ELSE IF learningresourcetype_by_resourcetype[value] # ""
         THEN [record EXCEPT !.learningresourcetype =
                                Append(@, learningresourcetype_by_resourcetype[value])]
         ELSE record

\* datetime.fromtimestamp(value) on the string the schema requires
visit_timereleased(value, record) == [record EXCEPT !.err = "TypeError"]

\* getattr(self, "visit_<attribute>", func_not_found)(value, record)
visit_attribute(visitor, attribute, value, record) ==
    IF attribute \notin Handlers(visitor) THEN [record EXCEPT !.err = "ValueError"]
    ELSE IF visitor # "MoodleFileToLOMFile" THEN record
    ELSE IF attribute = "resourcetype" THEN visit_resourcetype(value, record)
    ELSE IF attribute = "classification" THEN visit_classification(value, record)
    ELSE IF attribute = "timereleased" THEN visit_timereleased(value, record)
    ELSE record

\* Visitor.visit: the attributes in the order of the object, up to the first raise
RECURSIVE visit(_, _, _)
visit(visitor, value, record) ==
    IF value = <<>> \/ record.err # "" THEN record
    ELSE visit(visitor, Tail(value),
               visit_attribute(visitor, Head(value)[1], Head(value)[2], record))

convert_file_metadata(moodle_file_metadata) ==
    visit("MoodleFileToLOMFile", moodle_file_metadata, EmptyLOM)

convert_unit_metadata(moodle_course_metadata, moodle_file_metadata) ==
    visit("MoodleFileToLOMFile", moodle_course_metadata,
          visit("MoodleFileToLOMFile", moodle_file_metadata, EmptyLOM))

convert_course_metadata(moodle_course_metadata, moodle_file_metadata) ==
    visit("MoodleFileToLOMFile", moodle_course_metadata,
          visit("MoodleFileToLOMFile", moodle_file_metadata, EmptyLOM))

\* MoodleRESTService.fetch_records: the fetched payload is validated, a
\* ValidationError becomes a RuntimeError carrying its message
fetch_records_unvalidated(moodle_data) ==
    [raised |-> "", message |-> <<>>, records |-> moodle_data]
fetch_records(moodle_data) ==
    LET loaded == MoodleSchemaLoad(moodle_data)
    IN  IF loaded.raised
        THEN [raised |-> "RuntimeError", message |-> <<loaded.urls, loaded.courseids>>,
              records |-> <<>>]
        ELSE [raised |-> "", message |-> <<>>, records |-> moodle_data]

NoConvOut == [done |-> {}, classification |-> EmptyLOM, resourcetype |-> EmptyLOM,
              file |-> EmptyLOM, unit |-> EmptyLOM, course |-> EmptyLOM]
NoConvIn == [order |-> "", resourcetype |-> "", classification |-> <<>>]
NoCli == [state |-> "idle", fetched |-> <<>>, reported |-> <<>>, calls |-> 0]

InitConvertIdle ==
    /\ convIn = NoConvIn
    /\ convOut = NoConvOut

InitCliIdle == cli = NoCli

InitSchemaIdle ==
    /\ doc = <<>>
    /\ verdict = NoVerdict

Init ==
    /\ repo \in InitRepos
    /\ InitRun
    /\ InitBatchIdle
    /\ InitSchemaIdle
    /\ InitConvertIdle
    /\ InitCliIdle

(***************************************************************************)
(* insert_moodle_into_db, one action per step                              *)
(***************************************************************************)
\* the run ends with exception e
Raise(e) ==
    /\ pc' = "failed"
    /\ err' = e

\* insert_moodle_into_db(moodle_data) is called
Call(data) ==
    /\ pc \in {"idle", "done", "failed"}
    /\ runs < MaxRuns
    /\ payload' = data
    /\ pre' = repo
    /\ pc' = "validate"
    /\ fileCache' = {}
    /\ taskLogs' = <<>>
    /\ links' = {}
    /\ log' = <<>>
    /\ tempDir' = "none"
    /\ err' = ""
    /\ runs' = runs + 1
    /\ last' = [payload |-> payload, ok |-> pc = "done"]
    /\ UNCHANGED <<repo, batchVars, schemaVars, convertVars, cli>>

\* validate input
Validate ==
    /\ pc = "validate"
    /\ IF Valid(payload)
       THEN pc' = "tempdir" /\ err' = err
       ELSE Raise("ValidationError")
    /\ UNCHANGED <<repo, pre, payload, fileCache, taskLogs, links, log, tempDir, runs, last,
                   batchVars, schemaVars, convertVars, cli>>

\* with TemporaryDirectory() as temp_dir
EnterTempDir ==
    /\ pc = "tempdir"
    /\ tempDir' = "exists"
    /\ pc' = "cache"
    /\ UNCHANGED <<repo, pre, payload, fileCache, taskLogs, links, log, err, runs, last, batchVars,
                   schemaVars, convertVars, cli>>

\* download unprovided urls into temp_dir, build file_cache
CacheFiles(provided, failAt) ==
    /\ pc = "cache"
    \* filepaths_by_url maps some file-urls within moodle_data to filepaths
    /\ provided \subseteq {payload[i].fileurl : i \in DOMAIN payload}
    /\ failAt # 0 => payload[failAt].fileurl \notin provided
    /\ LET urls == [i \in DOMAIN payload |-> payload[i].fileurl]
           res == cache_files(provided, urls, failAt)
       IN  /\ log' = log \o res.log
           /\ IF res.err = ""
              THEN /\ fileCache' = res.cache
                   /\ pc' = "prepare"
                   /\ UNCHANGED <<err, tempDir>>
              ELSE /\ Raise(res.err)
                   /\ tempDir' = Cleanup(TRUE)
                   /\ UNCHANGED fileCache
    /\ UNCHANGED <<repo, pre, payload, taskLogs, links, runs, last, batchVars,
                   schemaVars, convertVars, cli>>

\* initialize task_logs; failAt is the position of the file element at which
\* the first call to the store raises (0: none)
PrepareTasks(failAt) ==
    /\ pc = "prepare"
    /\ LET n == IF failAt = 0 THEN Len(payload) ELSE failAt - 1
           s == prepare_tasks(repo, payload, fileCache, n)
       IN  /\ repo' = s.repo
           /\ taskLogs' = s.tasks
           /\ log' = log \o s.log
           /\ IF failAt = 0
              THEN pc' = "files" /\ UNCHANGED <<err, tempDir>>
              ELSE Raise("StoreError") /\ tempDir' = Cleanup(TRUE)
    /\ UNCHANGED <<pre, payload, fileCache, links, runs, last, batchVars,
                   schemaVars, convertVars, cli>>

\* enter files into database; the with-block of the temporary directory ends
InsertFilesIntoDb ==
    /\ pc = "files"
    /\ LET s == insert_files_into_db(repo, taskLogs, fileCache)
       IN  /\ repo' = s.repo
           /\ taskLogs' = s.tasks
           /\ log' = log \o s.log
           /\ tempDir' = Cleanup(s.err # "")
           /\ IF s.err = "" THEN pc' = "links" /\ err' = err ELSE Raise(s.err)
    /\ UNCHANGED <<pre, payload, fileCache, links, runs, last, batchVars,
                   schemaVars, convertVars, cli>>

\* link records
LinkRecords ==
    /\ pc = "links"
    /\ LET s == get_links(taskLogs, repo)
       IN  /\ log' = log \o s.log
           /\ IF s.err = ""
              THEN /\ taskLogs' = ApplyLinks(s.tasks, s.links)
                   /\ links' = s.links
                   /\ pc' = "update"
                   /\ err' = err
              ELSE /\ Raise(s.err)
                   /\ taskLogs' = s.tasks
                   /\ links' = {}
    /\ UNCHANGED <<repo, pre, payload, fileCache, tempDir, runs, last, batchVars,
                   schemaVars, convertVars, cli>>

\* update lom-jsons with info from moodle
UpdateMetadata ==
    /\ pc = "update"
    /\ taskLogs' = UpdateJsons(taskLogs, fileCache)
    /\ pc' = "drafts"
    /\ UNCHANGED <<repo, pre, payload, fileCache, links, log, tempDir, err, runs, last, batchVars,
                   schemaVars, convertVars, cli>>

\* update drafts
UpdateDrafts ==
    /\ pc = "drafts"
    /\ LET s == UpdateDraftsFrom([repo |-> repo, log |-> <<>>], taskLogs, 1)
       IN  /\ repo' = s.repo
           /\ log' = log \o s.log
    /\ pc' = "publish"
    /\ UNCHANGED <<pre, payload, fileCache, taskLogs, links, tempDir, err, runs, last, batchVars,
                   schemaVars, convertVars, cli>>

\* publish created drafts inside one unit of work; failAt is the position of
\* the publish call that raises (0: none)
Publish(failAt) ==
    /\ pc = "publish"
    /\ LET drafts == WithDraft(repo, taskLogs, 1)
           pids == [k \in DOMAIN drafts |-> drafts[k].pid]
           upto == IF failAt = 0 THEN Len(drafts) ELSE failAt - 1
           after == PublishAll(repo, pids, 1, upto)
           calls == [k \in 1..upto |-> Ev("publish", drafts[k].key, drafts[k].pid)]
       IN  /\ failAt <= Len(drafts)
           /\ IF failAt = 0
              THEN /\ repo' = after
                   /\ log' = log \o calls \o <<Ev("commit", NoKey, 0)>>
                   /\ pc' = "done"
                   /\ err' = err
              ELSE /\ repo' = Rollback(repo, after)
                   /\ log' = log \o calls
                             \o <<Ev("publish_failed", drafts[failAt].key, drafts[failAt].pid)>>
                   /\ Raise("PublishError")
    /\ UNCHANGED <<pre, payload, fileCache, taskLogs, links, tempDir, runs, last, batchVars,
                   schemaVars, convertVars, cli>>

Next ==
    \/ \E data \in Payloads : Call(data)
    \/ Validate
    \/ EnterTempDir
    \/ \E provided \in ProvidedSets, failAt \in 0..MaxElems :
          failAt <= Len(payload) /\ CacheFiles(provided, failAt)
    \/ \E failAt \in 0..MaxElems : failAt <= Len(payload) /\ PrepareTasks(failAt)
    \/ InsertFilesIntoDb
    \/ LinkRecords
    \/ UpdateMetadata
    \/ UpdateDrafts
    \/ \E failAt \in 0..(3 * MaxElems) : Publish(failAt)

Spec == Init /\ [][Next]_vars

(***************************************************************************)
(* The batch loops: tasks.import_records, cli.import_by_endpoint and       *)
(* api.insert_moodle_into_db call the import function once per record      *)
(* inside try/except.                                                      *)
(***************************************************************************)
Loops == {"tasks", "cli", "api"}

\* what a call of the import function on one record may do
Outcomes == {"ok", "RuntimeError", "NoResultFound", "ValueError"}

\* the exception class named by the except clause of each loop
CaughtNone(loop) == "none"
Caught(loop) == IF loop = "api" THEN "NoResultFound" ELSE "RuntimeError"

\* the loop is entered with a batch of n records
BatchStart(loop, n) ==
    /\ bStatus = "idle"
    /\ bLoop' = loop
    /\ bLen' = n
    /\ bOutcomes' = <<>>
    /\ bCalls' = <<>>
    /\ bStatus' = "running"
    /\ UNCHANGED <<runVars, schemaVars, convertVars, cli>>

\* one iteration: the import function is called on the next record
ImportRecord(outcome) ==
    /\ bStatus = "running"
    /\ Len(bCalls) < bLen
    /\ bCalls' = Append(bCalls, Len(bCalls) + 1)
    /\ bOutcomes' = Append(bOutcomes, outcome)
    /\ bStatus' = IF outcome = "ok" \/ outcome = Caught(bLoop) THEN "running" ELSE "aborted"
    /\ UNCHANGED <<bLoop, bLen, runVars, schemaVars, convertVars, cli>>

\* the loop is exhausted
BatchEnd ==
    /\ bStatus = "running"
    /\ Len(bCalls) = bLen
    /\ bStatus' = "done"
    /\ UNCHANGED <<bLoop, bLen, bOutcomes, bCalls, runVars, schemaVars, convertVars, cli>>

InitBatch ==
    /\ repo = <<>>
    /\ InitRun
    /\ InitBatchIdle
    /\ InitSchemaIdle
    /\ InitConvertIdle
    /\ InitCliIdle

NextBatch ==
    \/ \E loop \in Loops, n \in 0..MaxBatch : BatchStart(loop, n)
    \/ \E outcome \in Outcomes : ImportRecord(outcome)
    \/ BatchEnd

SpecBatch == InitBatch /\ [][NextBatch]_vars

(***************************************************************************)
(* Schema validation on its own: MoodleSchema().load on documents whose    *)
(* elements name their URL by fileurl (application profile 1.0), by source *)
(* (application profile 2.0) or by both.                                   *)
(***************************************************************************)
CourseBRenamed == [courseid |-> "B", sourceid |-> "-1", coursename |-> "Basics II"]
Course0Renamed == [courseid |-> "0", sourceid |-> "-1", coursename |-> "other"]

DocElem1 == [fileurl |-> "u1", courses |-> <<CourseB>>]
DocElem2 == [source |-> "u1", courses |-> <<CourseB>>]
DocElem3 == [fileurl |-> "u2", source |-> "u1", courses |-> <<CourseBRenamed>>]
DocElem4 == [source |-> "u2", courses |-> <<Course0>>]
DocElem5 == [fileurl |-> "u3", courses |-> <<Course0Renamed>>]

DocElems == {DocElem1, DocElem2, DocElem3, DocElem4, DocElem5}
Docs == UNION {[1..n -> DocElems] : n \in 1..MaxDoc}

\* MoodleSchema().load(doc)
LoadDoc ==
    /\ ~verdict.called
    /\ verdict' = MoodleSchemaLoad(doc)
    /\ UNCHANGED <<doc, runVars, batchVars, convertVars, cli>>

InitSchema ==
    /\ repo = <<>>
    /\ InitRun
    /\ InitBatchIdle
    /\ doc \in Docs
    /\ verdict = NoVerdict
    /\ InitConvertIdle
    /\ InitCliIdle

NextSchema == LoadDoc

SpecSchema == InitSchema /\ [][NextSchema]_vars

(***************************************************************************)
(* The converters on their own: the handlers of MoodleFileToLOMFile and    *)
(* the three convert functions applied to elements the element schema      *)
(* accepts.                                                                *)
(***************************************************************************)
Ids == {<<2, 3, 4, 5>>, <<2, 3, 4>>, <<1, 2, 3>>, <<1, 2, 3, 4>>, <<2>>}
ExampleIds == <<<<2, 3, 4, 5>>, <<2, 3, 4>>, <<1, 2, 3>>, <<1, 2, 3, 4>>, <<2>>>>
IdLists == {<<>>, ExampleIds} \cup UNION {[1..n -> Ids] : n \in 1..MaxIds}

\* the ids spread over two classification blocks
Classifications(ids) ==
    <<[values |-> SubSeq(ids, 1, Len(ids) \div 2)],
      [values |-> SubSeq(ids, Len(ids) \div 2 + 1, Len(ids))]>>

ResourceTypes == {"No selection", "Presentationslide", "Exercise", "Video"}

\* the required fields of ElementSchema, as declared and with the fields
\* MoodleFileToLOMFile handles first
Orders == {"declared", "handled_first"}
ElementAttributes(order) ==
    IF order = "declared"
    THEN <<"abstract", "classification", "context", "courses", "language", "persons",
           "resourcetype", "semester", "tags", "timereleased", "title", "year">>
    ELSE <<"abstract", "classification", "language", "persons", "resourcetype", "tags",
           "title", "timereleased", "context", "courses", "semester", "year">>

\* the fields of CourseSchema
CourseAttributes ==
    <<"courseid", "courselanguage", "coursename", "description", "identifier",
      "lecturer", "objective", "organisation", "sourceid", "structure">>
MoodleCourse == [k \in DOMAIN CourseAttributes |-> <<CourseAttributes[k], "">>]

MoodleElement(in) ==
    LET attributes == ElementAttributes(in.order)
    IN  [k \in DOMAIN attributes |->
            <<attributes[k],
              CASE attributes[k] = "classification" -> in.classification
                [] attributes[k] = "resourcetype" -> in.resourcetype
                [] attributes[k] = "courses" -> <<MoodleCourse>>
                [] OTHER -> "">>]

ConvInputs ==
    {[order |-> o, resourcetype |-> r, classification |-> Classifications(ids)] :
        o \in Orders, r \in ResourceTypes, ids \in IdLists}

\* MoodleFileToLOMFile().visit_classification(classification, LOMMetadata())
VisitClassification ==
    /\ "classification" \notin convOut.done
    /\ convOut' = [convOut EXCEPT
                      !.done = @ \cup {"classification"},
                      !.classification = visit_classification(convIn.classification, EmptyLOM)]
    /\ UNCHANGED <<convIn, runVars, batchVars, schemaVars, cli>>

\* MoodleFileToLOMFile().visit_resourcetype(resourcetype, LOMMetadata())
VisitResourcetype ==
    /\ "resourcetype" \notin convOut.done
    /\ convOut' = [convOut EXCEPT
                      !.done = @ \cup {"resourcetype"},
                      !.resourcetype = visit_resourcetype(convIn.resourcetype, EmptyLOM)]
    /\ UNCHANGED <<convIn, runVars, batchVars, schemaVars, cli>>

\* the three convert functions on the element and its course entry
ConvertMetadata ==
    /\ "convert" \notin convOut.done
    /\ convOut' = [convOut EXCEPT
                      !.done = @ \cup {"convert"},
                      !.file = convert_file_metadata(MoodleElement(convIn)),
                      !.unit = convert_unit_metadata(MoodleCourse, MoodleElement(convIn)),
                      !.course = convert_course_metadata(MoodleCourse, MoodleElement(convIn))]
    /\ UNCHANGED <<convIn, runVars, batchVars, schemaVars, cli>>

InitConvert ==
    /\ repo = <<>>
    /\ InitRun
    /\ InitBatchIdle
    /\ InitSchemaIdle
    /\ InitCliIdle
    /\ convIn \in ConvInputs
    /\ convOut = NoConvOut

NextConvert ==
    \/ VisitClassification
    \/ VisitResourcetype
    \/ ConvertMetadata

SpecConvert == InitConvert /\ [][NextConvert]_vars

(***************************************************************************)
(* cli.import_by_endpoint: fetch the records from the endpoint, then call  *)
(* the import function on each of them.                                    *)
(***************************************************************************)
\* records = moodle_service.fetch_records(identity), doc being the payload
\* the endpoint delivers
CliFetch ==
    /\ cli.state = "idle"
    /\ LET fetched == fetch_records(doc)
       IN  cli' = IF fetched.raised = "RuntimeError"
                  THEN [cli EXCEPT !.state = "done", !.fetched = fetched,
                                   !.reported = Append(@, fetched.message)]
                  ELSE [cli EXCEPT !.state = "importing", !.fetched = fetched]
    /\ UNCHANGED <<doc, verdict, runVars, batchVars, convertVars>>

\* one iteration of the loop over the records
CliImport(outcome) ==
    /\ cli.state = "importing"
    /\ cli.calls < Len(cli.fetched.records)
    /\ cli' = [cli EXCEPT
                  !.calls = @ + 1,
                  !.reported = IF outcome = Caught("cli") THEN Append(@, <<outcome>>) ELSE @,
                  !.state = IF outcome \in {"ok", Caught("cli")} THEN @ ELSE "aborted"]
    /\ UNCHANGED <<doc, verdict, runVars, batchVars, convertVars>>

\* the loop is exhausted
CliEnd ==
    /\ cli.state = "importing"
    /\ cli.calls = Len(cli.fetched.records)
    /\ cli' = [cli EXCEPT !.state = "done"]
    /\ UNCHANGED <<doc, verdict, runVars, batchVars, convertVars>>

InitCli ==
    /\ repo = <<>>
    /\ InitRun
    /\ InitBatchIdle
    /\ InitConvertIdle
    /\ doc \in Docs
    /\ verdict = NoVerdict
    /\ cli = NoCli

NextCli ==
    \/ CliFetch
    \/ \E outcome \in Outcomes : CliImport(outcome)
    \/ CliEnd

SpecCli == InitCli /\ [][NextCli]_vars

(***************************************************************************)
(* Properties                                                              *)
(***************************************************************************)
AfterPrepare == {"files", "links", "update", "drafts", "publish", "done"}
LogOps == {log[i].op : i \in DOMAIN log}
CourseIds == {"B", "C"}

\* C1: when a run follows a successful run with the same payload, the second
\* run computes for every record the metadata it read for it (no diff, no
\* duplicated relation) and attaches no file.
C1_IdempotentReimport ==
    (runs >= 2 /\ last.ok /\ last.payload = payload /\ pc \in {"drafts", "publish", "done"})
        => /\ \A i \in DOMAIN taskLogs : ~taskLogs[i].isNew /\ taskLogs[i].prev = taskLogs[i].json
           /\ "attach" \notin LogOps

\* every record of resource type 'file' has at most one attached file
AtMostOneFile ==
    \A i \in DOMAIN repo :
        repo[i].rtype = "file" => repo[i].dfiles <= 1 /\ repo[i].pfiles <= 1

\* C2: if every 'file' record has at most one attached file, no step of an
\* import run leaves a 'file' record with more than one attached file.
C2_AtMostOneFile == [][AtMostOneFile => AtMostOneFile']_vars

\* C2 witness: a second run went through insert_files_into_db for a file record
\* that already had its file
C2_Witness ==
    /\ pc = "links"
    /\ AtMostOneFile
    /\ \E i \in DOMAIN taskLogs :
          /\ IsFileKey(taskLogs[i].key)
          /\ ~taskLogs[i].isNew
          /\ repo[taskLogs[i].pid].pfiles = 1

\* the published side of the repository is what it was when the run was called
PublishedAsBefore ==
    \A i \in DOMAIN repo :
        IF i \in DOMAIN pre
        THEN /\ repo[i].pub = pre[i].pub
             /\ repo[i].pmeta = pre[i].pmeta
             /\ repo[i].pfiles = pre[i].pfiles
        ELSE ~repo[i].pub

\* C3 (as stated): if a publish call of a run fails, the repository is left in
\* the state it had before the run started: no record of the batch is
\* published, created, updated or given a file by the failed run.
C3_PublishAtomicity == err = "PublishError" => repo = pre

\* C3 (amended): if a publish call of a run fails, all publishes of the run are
\* rolled back: no record of the batch is published by the run and the published
\* records and the identifier store are as before the run.
C3_PublishRollback == err = "PublishError" => PublishedAsBefore

\* C3 witness: a publish call failed after another publish call of the same run
\* had returned
C3_Witness ==
    /\ err = "PublishError"
    /\ "publish" \in LogOps
    /\ repo # pre

\* C4: an invalid payload makes the run raise at validation, before any
\* download, lookup, creation, attachment, draft update or publish.
C4_ValidationFirst ==
    (pc # "idle" /\ DuplicatedUrls(payload) # {})
        => /\ pc \in {"validate", "failed"}
           /\ pc = "failed" => err = "ValidationError"
           /\ log = <<>>
           /\ repo = pre
           /\ taskLogs = <<>>
           /\ fileCache = {}
           /\ tempDir = "none"

\* C4 witness: a run on a non-empty repository raised the validation error
C4_Witness == pc = "failed" /\ err = "ValidationError" /\ Len(repo) > 1

\* C5: two file elements with different URLs and the same content hash have
\* the same FileKey and the same record.
C5_ContentAddressedDedup ==
    pc \in AfterPrepare =>
        \A i, j \in DOMAIN taskLogs :
            (/\ IsFileKey(taskLogs[i].key)
             /\ IsFileKey(taskLogs[j].key)
             /\ taskLogs[i].key[5] = taskLogs[j].key[5])
                => taskLogs[i].key = taskLogs[j].key /\ taskLogs[i].pid = taskLogs[j].pid

\* C6: in one run of prepare_tasks every key is looked up at most once and
\* created at most once, the table holds one task log per key, and the task log
\* of a key carries the record of that one lookup.
C6_SingleRecordPerKey ==
    /\ \A i, j \in DOMAIN log :
          (log[i].op \in {"get", "create"} /\ log[i].op = log[j].op /\ log[i].key = log[j].key)
              => i = j
    /\ \A i, j \in DOMAIN taskLogs : taskLogs[i].key = taskLogs[j].key => i = j
    /\ \A i \in DOMAIN taskLogs :
          taskLogs[i].fj # NoJson =>
              \E k \in DOMAIN log :
                  /\ log[k].op = (IF taskLogs[i].isNew THEN "create" ELSE "read")
                  /\ log[k].key = taskLogs[i].key
                  /\ log[k].id = taskLogs[i].pid

\* C6 witness: two file elements of one run referred to the same unit and course
C6_Witness ==
    /\ pc = "files"
    /\ Len(payload) = 2
    /\ payload[1].fileurl # payload[2].fileurl
    /\ UnitKeyFromJson(payload[1], payload[1].courses[1])
          = UnitKeyFromJson(payload[2], payload[2].courses[1])
    /\ Len(taskLogs) = 4

\* the published records carrying the moodle identifier of course c
CourseRecords(r, c) == PidGet(r, to_string_key(CourseKey(c)))

C9_DownloadFailureAborts ==
    "download_failed" \in LogOps
        => /\ pc = "failed"
           /\ err = "HTTPError"
           /\ repo = pre
           /\ taskLogs = <<>>
           /\ LogOps \subseteq {"read_provided", "download", "download_failed"}

\* C9 witness: the second download of a run on a non-empty repository failed
C9_Witness ==
    /\ err = "HTTPError"
    /\ Len(log) = 2
    /\ Len(repo) > 1

\* C10: the temporary directory exists only while the run is inside the
\* with-block (cache_files, prepare_tasks, insert_files_into_db); once the run
\* has returned or raised it is removed.
C10_ScopedTempDir ==
    /\ tempDir = "exists" => pc \in {"cache", "prepare", "files"}
    /\ pc \in {"cache", "prepare", "files"} => tempDir = "exists"
    /\ pc = "done" => tempDir = "removed"

\* C10 witness: the run raised during file attachment and the directory is gone
C10_Witness == pc = "failed" /\ err = "ValueError" /\ tempDir = "removed"

\* every failure handled so far is of the class the loop catches
OnlyCaughtFailures ==
    \A k \in DOMAIN bOutcomes :
        \/ bOutcomes[k] = "ok"
        \/ bLoop \in {"tasks", "cli"} /\ bOutcomes[k] = "RuntimeError"
        \/ bLoop = "api" /\ bOutcomes[k] = "NoResultFound"

PseudoKey(key) == (IsUnitKey(key) \/ IsCourseKey(key)) /\ key[2] = "0"
PseudoIds ==
    {to_string_key(CourseKey("0"))}
        \cup {to_string_key(UnitKey("0", Elems[e].year, Elems[e].semester)) : e \in DOMAIN Elems}

\* C11: a course entry with courseid "0" never puts a UnitKey or CourseKey in
\* the run's table, never causes a lookup or creation of a record, and is
\* neither source nor target of a link returned by get_links.
C11_PseudoCourseExclusion ==
    /\ \A i \in DOMAIN taskLogs : ~PseudoKey(taskLogs[i].key)
    /\ \A k \in DOMAIN log : ~PseudoKey(log[k].key)
    /\ \A i \in DOMAIN repo : repo[i].moodle \notin PseudoIds
    /\ \A l \in links : ~PseudoKey(l.key) /\ repo[l.value].moodle \notin PseudoIds

\* C11 witness: a run whose payload holds a course entry with courseid "0"
\* went through prepare_tasks and get_links and finished
C11_Witness ==
    /\ pc = "done"
    /\ links # {}
    /\ \E i \in DOMAIN payload :
          \E j \in DOMAIN payload[i].courses : payload[i].courses[j].courseid = "0"

\* the linking pass of the run has returned
LinkingDone == pc \in {"update", "drafts", "publish", "done"} \/ err = "PublishError"

\* the identifier store, unchanged from the call of the run to its publish
\* step, holds no entry for course c
NeverImported(c) == PidGet(pre, to_string_key(CourseKey(c))) = {}

\* the course task logs that came from a course entry of the payload
CourseTasks == {i \in DOMAIN taskLogs : IsCourseKey(taskLogs[i].key) /\ taskLogs[i].cj # NoJson}

\* the links that tie the course of task log t to a preceding course
PredecessorLinks(t) ==
    {l \in links : \/ l.key = t.key /\ l.kind = "continues"
                   \/ l.kind = "iscontinuedby" /\ l.value = t.pid}

\* C12: a course with sourceid "-1", or whose sourceid names a course without an
\* entry in the identifier store, gets no continues/iscontinuedby link; a run
\* whose courses are all of these two sorts does not raise in the linking pass
\* and its table holds only the records of prepare_tasks.
C12_RootCourseLinking ==
    /\ LinkingDone =>
          \A i \in CourseTasks :
              (\/ taskLogs[i].cj[1].sourceid = "-1"
               \/ NeverImported(taskLogs[i].cj[1].sourceid))
                  => PredecessorLinks(taskLogs[i]) = {}
    /\ (\A i \in CourseTasks :
            \/ taskLogs[i].cj[1].sourceid = "-1"
            \/ NeverImported(taskLogs[i].cj[1].sourceid))
          => /\ err # "TypeError"
             /\ \A i \in DOMAIN taskLogs : taskLogs[i].fj # NoJson

\* C12 witness: the linking pass returned for a run with a root course and a
\* course whose predecessor is in the run's table but not in the identifier store
C12_Witness ==
    /\ pc = "update"
    /\ \E i \in CourseTasks : taskLogs[i].cj[1].sourceid = "-1"
    /\ \E i \in CourseTasks :
          /\ taskLogs[i].cj[1].sourceid = "B"
          /\ NeverImported("B")
          /\ InTasks(CourseKey("B"), taskLogs)

\* C13: when a course of the run has a sourceid other than "-1" and the
\* preceding course has an entry in the identifier store, the linking pass
\* returns without error, with the link iscontinuedby from the preceding course
\* to this course's pid and the link continues from this course to the
\* preceding course's pid, the preceding course being in the run's table.
C13_PredecessorLinking ==
    \A i \in CourseTasks :
        LET t == taskLogs[i]
            source_course_key == CourseKey(t.cj[1].sourceid)
        IN  (/\ t.cj[1].sourceid # "-1"
             /\ ~NeverImported(t.cj[1].sourceid)
             /\ pc \notin {"prepare", "files", "links"}
             /\ err \notin {"StoreError", "ValueError"})
                => /\ LinkingDone
                   /\ InTasks(source_course_key, taskLogs)
                   /\ Link(source_course_key, "iscontinuedby", t.pid) \in links
                   /\ \E p \in PidGet(pre, to_string_key(source_course_key)) :
                         Link(t.key, "continues", p) \in links

\* one file element that refers to one regular course without predecessor
MinimalPayload ==
    /\ Len(payload) = 1
    /\ Len(payload[1].courses) = 1
    /\ payload[1].courses[1].courseid # "0"
    /\ payload[1].courses[1].sourceid = "-1"

\* C14: the minimal payload imported into an empty repository yields one file
\* record, one unit record and one course record, each newly created, and
\* exactly the links file ispartof unit, unit haspart file, unit ispartof
\* course and course haspart unit.
C14_MinimalScenario ==
    (MinimalPayload /\ pre = <<>> /\ LinkingDone) =>
        /\ Len(taskLogs) = 3
        /\ Len(repo) = 3
        /\ \E f, u, c \in DOMAIN taskLogs :
              /\ IsFileKey(taskLogs[f].key) /\ repo[taskLogs[f].pid].rtype = "file"
              /\ IsUnitKey(taskLogs[u].key) /\ repo[taskLogs[u].pid].rtype = "unit"
              /\ IsCourseKey(taskLogs[c].key) /\ repo[taskLogs[c].pid].rtype = "course"
              /\ {taskLogs[f].pid, taskLogs[u].pid, taskLogs[c].pid} = DOMAIN repo
              /\ taskLogs[f].isNew /\ taskLogs[u].isNew /\ taskLogs[c].isNew
              /\ links = {Link(taskLogs[f].key, "ispartof", taskLogs[u].pid),
                          Link(taskLogs[u].key, "haspart", taskLogs[f].pid),
                          Link(taskLogs[u].key, "ispartof", taskLogs[c].pid),
                          Link(taskLogs[c].key, "haspart", taskLogs[u].pid)}
              /\ taskLogs[f].json.rel = {<<"ispartof", taskLogs[u].pid>>}
              /\ taskLogs[u].json.rel = {<<"haspart", taskLogs[f].pid>>,
                                         <<"ispartof", taskLogs[c].pid>>}
              /\ taskLogs[c].json.rel = {<<"haspart", taskLogs[u].pid>>}

\* C14 witness: the run on the minimal payload finished on an empty repository
C14_Witness ==
    /\ pc = "done"
    /\ MinimalPayload
    /\ pre = <<>>
    /\ \A i \in DOMAIN repo : repo[i].pub

\* the urls two or more elements of doc share
SharedUrls ==
    {u \in {canonical_url(doc[i]) : i \in DOMAIN doc} :
        \E i, j \in DOMAIN doc :
            i # j /\ canonical_url(doc[i]) = u /\ canonical_url(doc[j]) = u}

\* C15: validation fails exactly when two or more elements of the document
\* share their canonical URL (fileurl if present, otherwise source), and the
\* error lists every URL that occurs more than once and no URL that occurs once.
C15_DuplicateUrlsRejected ==
    verdict.called =>
        /\ verdict.raised <=> SharedUrls # {}
        /\ verdict.urls = SharedUrls

\* C15 witness: validation raised on a document in which an element without
\* fileurl repeats the URL of another element and a third URL occurs once
C15_Witness ==
    /\ verdict.raised
    /\ verdict.urls = {"u1"}
    /\ \E i, j \in DOMAIN doc :
          /\ "fileurl" \notin DOMAIN doc[i]
          /\ doc[i].source = "u1"
          /\ canonical_url(doc[j]) = "u2"

\* the course ids other than "0" that occur in several elements of doc with
\* differing course metadata
DifferingCourseIds ==
    {c \in {"B", "C"} :
        \E i, j \in DOMAIN doc :
            /\ i # j
            /\ \E a \in DOMAIN doc[i].courses, b \in DOMAIN doc[j].courses :
                  /\ doc[i].courses[a].courseid = c
                  /\ doc[j].courses[b].courseid = c
                  /\ doc[i].courses[a] # doc[j].courses[b]}

\* C16: validation raises if some courseid other than "0" appears in several
\* elements with differing course metadata, listing every such courseid; it
\* lists no courseid whose occurrences are identical, nor courseid "0".
C16_ConsistentCourseMetadata ==
    verdict.called =>
        /\ DifferingCourseIds # {} => verdict.raised
        /\ verdict.courseids = DifferingCourseIds

\* insert_files_into_db has gone through the whole table
FilesProcessed ==
    pc \in {"links", "update", "drafts", "publish", "done"} \/ err \in {"TypeError", "PublishError"}

\* the number of files attached to a record: those of its draft if it has one
FilesOf(rec) == IF rec.draft THEN rec.dfiles ELSE rec.pfiles

\* the file task logs whose record had n files attached when the run was called
FileTasksWith(n) ==
    {i \in DOMAIN taskLogs :
        /\ IsFileKey(taskLogs[i].key)
        /\ ~taskLogs[i].isNew
        /\ FilesOf(pre[taskLogs[i].pid]) = n}

\* C17 (as stated): when insert_files_into_db processes a file record that
\* already has one file attached, it raises a consistency error and attaches
\* nothing to that record.
C17_SecondFileRaises ==
    \A i \in FileTasksWith(1) :
        FilesProcessed =>
            /\ err = "ValueError"
            /\ Ev("attach", taskLogs[i].key, taskLogs[i].pid) \notin {log[k] : k \in DOMAIN log}

\* C17 (amended): when insert_files_into_db processes a file record that
\* already has one file attached, it attaches nothing to that record, which
\* keeps its one file, and raises nothing on its account: the consistency error
\* is raised only for a record with more than one file attached.
C17_OneFileSkipped ==
    /\ \A i \in FileTasksWith(1) :
          /\ Ev("attach", taskLogs[i].key, taskLogs[i].pid) \notin {log[k] : k \in DOMAIN log}
          /\ FilesOf(repo[taskLogs[i].pid]) = 1
    /\ err = "ValueError" => FileTasksWith(2) # {}

\* C17 witness: a later run found its file record with one file attached and
\* went on to the end
C17_Witness ==
    /\ pc = "done"
    /\ FileTasksWith(1) # {}
    /\ \E k \in DOMAIN log : log[k].op = "publish"

\* C18: when a file record of the run is found with more than one attached
\* file, insert_files_into_db raises before attaching anything to that record
\* and the run stops: no draft is updated and nothing is published afterwards.
C18_CorruptRecordFatal ==
    \A i \in FileTasksWith(2) :
        (pc # "files" /\ err # "StoreError") =>
            /\ pc = "failed"
            /\ err = "ValueError"
            /\ repo[taskLogs[i].pid] = pre[taskLogs[i].pid]
            /\ \A k \in DOMAIN log :
                  /\ log[k].op \notin {"update_draft", "publish", "commit"}
                  /\ log[k].op \in {"edit", "attach"} => log[k].id # taskLogs[i].pid

\* C18 witness: the run raised on a record with two files while its table held
\* other records as well
C18_Witness ==
    /\ err = "ValueError"
    /\ FileTasksWith(2) # {}
    /\ Len(taskLogs) > 3

\* the draft-update step of the run is over
DraftsUpdated == pc \in {"publish", "done"} \/ err = "PublishError"

\* the calls of kind op the run made for the record of task log t
CallsFor(op, t) == {k \in DOMAIN log : log[k].op = op /\ log[k].id = t.pid}

\* C19: the draft-update step calls edit and update_draft for a record of the
\* run exactly when the record is new or its final metadata differs from the
\* metadata read at lookup; an unchanged record gets no edit and no update_draft.
C19_NoOpSkipped ==
    DraftsUpdated =>
        \A i \in DOMAIN taskLogs :
            LET t == taskLogs[i]
                changed == t.isNew \/ t.prev # t.json
            IN  /\ changed => /\ Cardinality(CallsFor("update_draft", t)) = 1
                              /\ \E e \in CallsFor("edit", t), u \in CallsFor("update_draft", t) :
                                    u = e + 1
                /\ ~changed => CallsFor("update_draft", t) = {} /\ CallsFor("edit", t) = {}

\* C19 witness: the draft-update step of one run skipped an unchanged record
\* and updated a changed one
C19_Witness ==
    /\ pc = "done"
    /\ \E i, j \in DOMAIN taskLogs :
          /\ ~taskLogs[i].isNew /\ taskLogs[i].prev = taskLogs[i].json
          /\ ~taskLogs[j].isNew /\ taskLogs[j].prev # taskLogs[j].json

\* the identifier the claim gives a key
CanonicalIdentifier(key) ==
    CASE IsFileKey(key) -> key[5]
      [] IsUnitKey(key) -> key[2] \o "-" \o key[3] \o "-" \o key[4]
      [] OTHER -> key[2]

\* C20: get_moodle_pid_value returns the content hash for a FileKey,
\* "{course_id}-{year}-{semester}" for a UnitKey and the raw course id for a
\* CourseKey, every key has a string form, and the record of a key of the run
\* is registered under the key's identifier.
C20_CanonicalIdentifier ==
    \A i \in DOMAIN taskLogs :
        /\ get_moodle_pid_value(taskLogs[i].key) = CanonicalIdentifier(taskLogs[i].key)
        /\ KeyStr(taskLogs[i].key) # "AttributeError"
        /\ repo[taskLogs[i].pid].moodle = CanonicalIdentifier(taskLogs[i].key)

\* the relations the claim expects on a record: one per given record, of the
\* given kind, targeting the identifier of that record
ExpectedRelations(kind, keys) ==
    [k \in DOMAIN keys |-> <<kind, CanonicalIdentifier(keys[k])>>]

\* the relations a record carries after the calls made on it
RelationsOf(rec) == [k \in DOMAIN rec.appended |-> <<rec.appended[k].kind, rec.appended[k].target>>]

\* C21: for a file, its unit and the unit's course, file.construct_up_links([unit])
\* leaves the file with exactly [ispartof -> unit pid],
\* unit.construct_down_links([file]) followed by unit.construct_up_links([course])
\* leaves the unit with exactly [haspart -> file pid, ispartof -> course pid],
\* and course.construct_down_links([unit]) leaves the course with exactly
\* [haspart -> unit pid]; no call raises.
C21_LinkConstruction ==
    \A f, u, c \in DOMAIN taskLogs :
        LET fk == taskLogs[f].key
            uk == taskLogs[u].key
            ck == taskLogs[c].key
            file == construct_up_links(TypesRecord(fk), <<uk>>)
            unit == construct_up_links(construct_down_links(TypesRecord(uk), <<fk>>), <<ck>>)
            course == construct_down_links(TypesRecord(ck), <<uk>>)
        IN  (IsFileKey(fk) /\ IsUnitKey(uk) /\ IsCourseKey(ck)) =>
                /\ file.err = "" /\ unit.err = "" /\ course.err = ""
                /\ RelationsOf(file) = ExpectedRelations("ispartof", <<uk>>)
                /\ RelationsOf(unit) = ExpectedRelations("haspart", <<fk>>)
                                          \o ExpectedRelations("ispartof", <<ck>>)
                /\ RelationsOf(course) = ExpectedRelations("haspart", <<uk>>)

\* C22: conversion of valid input succeeds: for an element the element
\* schema accepts and a course entry of it, convert_file_metadata,
\* convert_unit_metadata and convert_course_metadata complete without
\* raising.
C22_ConversionSucceeds ==
    "convert" \in convOut.done =>
        /\ convOut.file.err = ""
        /\ convOut.unit.err = ""
        /\ convOut.course.err = ""

\* the ids handed to visit_classification, the ids it appended and their tags
ClassificationIds == OefosIds(convIn.classification)
AppendedIds == [k \in 1..(Len(convOut.classification.oefos) \div 2) |->
                   convOut.classification.oefos[2 * k][1]]
Occurrences(seq, x) == Cardinality({k \in DOMAIN seq : seq[k] = x})

\* b is a proper prefix of a, or the two differ first at a digit where a is smaller
OrderedBefore(a, b) ==
    \/ Len(b) < Len(a) /\ SubSeq(a, 1, Len(b)) = b
    \/ \E i \in 1..Len(a) :
          /\ i <= Len(b)
          /\ a[i] < b[i]
          /\ \A j \in 1..(i - 1) : a[j] = b[j]

\* C23: classification ordering law: the ids of all classification blocks
\* are appended in the order in which an id comes before each of its proper
\* prefixes and otherwise in lexicographic order (["2345","234","123",
\* "1234","2"] becomes ["1234","123","2345","234","2"]), each id exactly
\* twice: once untagged, then once tagged "en".
C23_ClassificationOrdering ==
    "classification" \in convOut.done =>
        LET oefos == convOut.classification.oefos
        IN  /\ convOut.classification.err = ""
            /\ Len(oefos) = 2 * Len(ClassificationIds)
            /\ \A k \in DOMAIN AppendedIds :
                  /\ oefos[2 * k - 1] = <<AppendedIds[k], "">>
                  /\ oefos[2 * k] = <<AppendedIds[k], "en">>
            /\ \A id_ \in Ids :
                  Occurrences(AppendedIds, id_) = Occurrences(ClassificationIds, id_)
            /\ \A k \in 1..(Len(AppendedIds) - 1) :
                  \/ AppendedIds[k] = AppendedIds[k + 1]
                  \/ OrderedBefore(AppendedIds[k], AppendedIds[k + 1])
            /\ ClassificationIds = ExampleIds =>
                  AppendedIds = <<<<1, 2, 3, 4>>, <<1, 2, 3>>, <<2, 3, 4, 5>>, <<2, 3, 4>>, <<2>>>>

\* the example of the source comment went through visit_classification
C23_Witness ==
    /\ "classification" \in convOut.done
    /\ ClassificationIds = ExampleIds
    /\ Len(convOut.classification.oefos) = 10
    /\ convOut.classification.oefos[1] = <<<<1, 2, 3, 4>>, "">>

\* C24: resource-type mapping: "Presentationslide" appends "slide" and
\* "Exercise" appends "assessment"; "No selection" and every value absent
\* from the table append nothing and raise no error.
C24_ResourceTypeMapping ==
    "resourcetype" \in convOut.done =>
        /\ convOut.resourcetype.err = ""
        /\ convOut.resourcetype.learningresourcetype =
              CASE convIn.resourcetype = "Presentationslide" -> <<"slide">>
                [] convIn.resourcetype = "Exercise" -> <<"assessment">>
                [] OTHER -> <<>>

\* the requests of the run for url, and the reads of a provided file for it
Requests(url) ==
    {k \in DOMAIN log : log[k].op \in {"download", "download_failed"}
                           /\ log[k].key = <<"url", url>>}
Provided(url) == \E k \in DOMAIN log : log[k] = Ev("read_provided", <<"url", url>>, 0)

\* C25: within one run cache_files requests each URL of the payload at most
\* once, and never a URL that is supplied in provided_filepaths_by_url.
C25_AtMostOneDownload ==
    \A i \in DOMAIN payload :
        LET url == payload[i].fileurl
        IN  /\ Cardinality(Requests(url)) <= 1
            /\ Provided(url) => Requests(url) = {}

\* C25 witness: a run of two files cached both, one from the provided path
\* and one by a download
C25_Witness ==
    /\ pc = "prepare"
    /\ Len(payload) = 2
    /\ \E i, j \in DOMAIN payload :
          /\ Provided(payload[i].fileurl)
          /\ Cardinality(Requests(payload[j].fileurl)) = 1

\* C26: when the payload fetched from the endpoint fails schema validation,
\* fetch_records raises a RuntimeError carrying the validation message and
\* returns no records, and import_by_endpoint reports that error and ends
\* without calling the import function.
C26_FailFastOnInvalidFetch ==
    (cli.state # "idle" /\ MoodleSchemaLoad(doc).raised) =>
        /\ cli.fetched.raised = "RuntimeError"
        /\ cli.fetched.message = <<MoodleSchemaLoad(doc).urls, MoodleSchemaLoad(doc).courseids>>
        /\ cli.fetched.records = <<>>
        /\ cli.reported = <<cli.fetched.message>>
        /\ cli.calls = 0
        /\ cli.state = "done"

\* C26 witness: the command ended after fetching a payload with a repeated URL
C26_Witness ==
    /\ cli.state = "done"
    /\ MoodleSchemaLoad(doc).raised
    /\ Len(doc) > 1
    /\ Len(cli.reported) = 1

\* the calls the publish step appends to the log
PublishStepCalls == SubSeq(log', Len(log) + 1, Len(log'))
PublishedIn(calls) == {calls[k].id : k \in {n \in DOMAIN calls : calls[n].op = "publish"}}

\* C27: the publish step calls publish exactly for the records of the run's
\* table that have a draft at that moment, each once; commit is called once,
\* after all of them, when every publish call returned; when a publish call
\* raises, commit is not called and the publishes made through the shared unit
\* of work are undone.
C27_PublishPhase ==
    [][pc = "publish" =>
          LET calls == PublishStepCalls
              drafts == {i \in DOMAIN taskLogs : repo[taskLogs[i].pid].draft}
          IN  /\ pc' \in {"done", "failed"}
              /\ PublishedIn(calls) \subseteq {taskLogs[i].pid : i \in drafts}
              /\ \A m, n \in DOMAIN calls :
                    (calls[m].op = "publish" /\ calls[n].op = "publish" /\ m # n)
                        => calls[m].id # calls[n].id
              /\ pc' = "done" =>
                    /\ PublishedIn(calls) = {taskLogs[i].pid : i \in drafts}
                    /\ Len(calls) = Cardinality(drafts) + 1
                    /\ calls[Len(calls)].op = "commit"
                    /\ \A k \in 1..(Len(calls) - 1) : calls[k].op = "publish"
                    /\ \A i \in drafts : repo'[taskLogs[i].pid].pub
              /\ pc' = "failed" =>
                    /\ \A k \in DOMAIN calls : calls[k].op # "commit"
                    /\ calls[Len(calls)].op = "publish_failed"
                    /\ repo' = repo
    ]_vars

\* C27 witness: a run ended after publishing one record of its table and
\* skipping another that had no draft
C27_Witness ==
    /\ pc = "done"
    /\ log[Len(log)].op = "commit"
    /\ \E i, j \in DOMAIN taskLogs :
          /\ CallsFor("publish", taskLogs[i]) # {}
          /\ CallsFor("publish", taskLogs[j]) = {}

\* the pids of the file, unit and course records of the run's table
FilePids == {taskLogs[i].pid : i \in {n \in DOMAIN taskLogs : IsFileKey(taskLogs[n].key)}}
UnitPids == {taskLogs[i].pid : i \in {n \in DOMAIN taskLogs : IsUnitKey(taskLogs[n].key)}}
CoursePids == {taskLogs[i].pid : i \in {n \in DOMAIN taskLogs : IsCourseKey(taskLogs[n].key)}}
PartOfLinks == {l \in links : l.kind = "ispartof"}
KeysOfPid(pid) == {taskLogs[i].key : i \in {n \in DOMAIN taskLogs : taskLogs[n].pid = pid}}

\* C28: every ispartof link of the linking pass goes from a file to a unit or
\* from a unit to a course and every haspart link the reverse way, so that no
\* course is the source of an ispartof link, no file the source of a haspart
\* link and no chain of ispartof links is longer than two.
C28_AcyclicHierarchy ==
    LinkingDone =>
        /\ \A l \in links :
              /\ l.kind = "ispartof" =>
                    \/ IsFileKey(l.key) /\ l.value \in UnitPids
                    \/ IsUnitKey(l.key) /\ l.value \in CoursePids
              /\ l.kind = "haspart" =>
                    \/ IsUnitKey(l.key) /\ l.value \in FilePids
                    \/ IsCourseKey(l.key) /\ l.value \in UnitPids
        /\ \A l1, l2 \in PartOfLinks :
              l2.key \in KeysOfPid(l1.value) =>
                  \A l3 \in PartOfLinks : l3.key \notin KeysOfPid(l2.value)

\* C28 witness: the linking pass tied a file to a unit and that unit to a course
C28_Witness ==
    /\ LinkingDone
    /\ \E l1, l2 \in PartOfLinks :
          IsFileKey(l1.key) /\ IsUnitKey(l2.key) /\ l2.key \in KeysOfPid(l1.value)

\* C29: in the links get_links returned, for all records a and b of the run
\* (a, ispartof, pid of b) is present exactly when (b, haspart, pid of a) is,
\* and (a, continues, pid of b) exactly when (b, iscontinuedby, pid of a) is.
C29_LinkReciprocity ==
    LinkingDone =>
        \A i, j \in DOMAIN taskLogs :
            LET a == taskLogs[i]
                b == taskLogs[j]
            IN  /\ Link(a.key, "ispartof", b.pid) \in links
                      <=> Link(b.key, "haspart", a.pid) \in links
                /\ Link(a.key, "continues", b.pid) \in links
                      <=> Link(b.key, "iscontinuedby", a.pid) \in links

\* C29 witness: get_links returned both an ispartof and a continues link
C29_Witness ==
    /\ pc = "update"
    /\ \E l1, l2 \in links : l1.kind = "ispartof" /\ l2.kind = "continues"

\* C30: when get_links has returned, the source key of every link is a key
\* of the run's table and every target is the pid of a record of that table.
C30_LinksNameKnownRecords ==
    LinkingDone =>
        \A l \in links :
            /\ \E i \in DOMAIN taskLogs : taskLogs[i].key = l.key
            /\ \E i \in DOMAIN taskLogs : taskLogs[i].pid = l.value

\* C30 witness: a run ended whose links include one from a preceding course
\* of the table and whose payload named a course that is left out of the table
C30_Witness ==
    /\ pc = "done"
    /\ \E l \in links : l.kind = "iscontinuedby"
    /\ \E i \in DOMAIN payload :
          \E j \in DOMAIN payload[i].courses : payload[i].courses[j].courseid = "0"

====
